---- MODULE Spec2Model ----
(***************************************************************************)
(* Model of two lint rules of the eslint-plugin package:                   *)
(*   rules/strict-comparisons.ts   (type-aware comparison check)           *)
(*   lib/rules/class-name-casing.ts (PascalCase check of class names)      *)
(* Each rule is a set of node handlers created by create(); the handlers   *)
(* read the visited node and the options and call context.report.          *)
(***************************************************************************)
EXTENDS Integers, Sequences, FiniteSets

VARIABLES
    options,    \* strict-comparisons options destructured by create()
    ast,        \* the nodes the traversal hands to the handlers, by index
    visited,    \* indices of the nodes whose handler has run
    locals,     \* per visited comparison node: leftKinds, rightKinds, operandKind
    reported,   \* the calls made to context.report, in order
    args,       \* arguments of a helper function applied on its own
    ret         \* <<>> before the helper returns, <<value>> after

vars == <<options, ast, visited, locals, reported, args, ret>>

----------------------------------------------------------------------------
(* Bounds of the model *)

\* largest number of members of a union operand type
MaxMembers == 3
\* largest number of flags set on one classified type
MaxFlags == 2
\* longest kind array handed to the resolver on its own
MaxKinds == 3
\* number of comparison expressions in a traversed program
ProgramLen == 3
\* longest identifier name of the casing rule
MaxNameLen == 2

----------------------------------------------------------------------------
(* strict-comparisons.ts : TypeKind, typeNames *)

Any == 0
Number == 1
Enum == 2
String == 3
Boolean == 4
NullOrUndefined == 5
Object == 6

TypeKind == {Any, Number, Enum, String, Boolean, NullOrUndefined, Object}

\* the value returned for "no comparable kind" (undefined in the source)
Undefined == -1

\* Math.max of no arguments (-Infinity in the source)
NegInfinity == -2

typeNames(kind) ==
    CASE kind = Any -> "any"
      [] kind = Number -> "number"
      [] kind = Enum -> "enum"
      [] kind = String -> "string"
      [] kind = Boolean -> "boolean"
      [] kind = NullOrUndefined -> "null | undefined"
      [] kind = Object -> "object"

----------------------------------------------------------------------------
(* ts.Type as the rule sees it: a set of ts.TypeFlags and, for a union,    *)
(* the member types.                                                       *)

TypeFlags == {"Any", "String", "Number", "Boolean", "Enum", "StringLiteral",
              "NumberLiteral", "BooleanLiteral", "EnumLiteral", "Void",
              "Undefined", "Null", "Object", "Union"}

BooleanLike == {"Boolean", "BooleanLiteral"}

\* tsutils isTypeFlagSet: (type.flags & flags) !== 0
isTypeFlagSet(type, flags) == (type.flags \cap flags) # {}

\* tsutils isUnionType: (type.flags & TypeFlags.Union) !== 0
isUnionType(type) == "Union" \in type.flags

----------------------------------------------------------------------------
(* Array helpers of the JavaScript runtime used by the rule *)

RECURSIVE indexOfFrom(_, _, _)
indexOfFrom(arr, x, i) ==
    IF i > Len(arr) THEN -1
    ELSE IF arr[i] = x THEN i - 1
    ELSE indexOfFrom(arr, x, i + 1)

\* Array.prototype.indexOf: 0-based position of the first x, or -1
indexOf(arr, x) == indexOfFrom(arr, x, 1)

\* Array.prototype.some(e => e === x)
some(arr, x) == \E i \in 1..Len(arr) : arr[i] = x

RECURSIVE ArrayFromSet(_)
\* Array.from(new Set(arr)): first occurrences, in insertion order
ArrayFromSet(arr) ==
    IF Len(arr) = 0 THEN <<>>
    ELSE LET front == ArrayFromSet(SubSeq(arr, 1, Len(arr) - 1))
             last == arr[Len(arr)]
         IN IF indexOf(front, last) >= 0 THEN front ELSE Append(front, last)

RECURSIVE MathMax(_)
\* Math.max.apply(Math, arr)
MathMax(arr) ==
    IF Len(arr) = 0 THEN NegInfinity
    ELSE LET rest == MathMax(Tail(arr))
         IN IF Head(arr) > rest THEN Head(arr) ELSE rest

RECURSIVE join(_, _)
\* Array.prototype.join(sep) on an array of strings
join(arr, sep) ==
    IF Len(arr) = 0 THEN ""
    ELSE IF Len(arr) = 1 THEN arr[1]
    ELSE arr[1] \o sep \o join(Tail(arr), sep)


----------------------------------------------------------------------------
(* strict-comparisons.ts : the helpers closed over by create() *)

\* getKind with a rule for enum types ahead of the others
getKind_enumRule(type) ==
    IF isTypeFlagSet(type, {"Enum", "EnumLiteral"}) THEN Enum
    ELSE IF isTypeFlagSet(type, {"String", "StringLiteral"}) THEN String
    ELSE IF isTypeFlagSet(type, {"Number", "NumberLiteral"}) THEN Number
    ELSE IF isTypeFlagSet(type, BooleanLike) THEN Boolean
    ELSE IF isTypeFlagSet(type, {"Null", "Undefined", "Void"}) THEN NullOrUndefined
    ELSE IF isTypeFlagSet(type, {"Any"}) THEN Any
    ELSE Object

getKind(type) ==
    IF isTypeFlagSet(type, {"String", "StringLiteral"}) THEN String
    ELSE IF isTypeFlagSet(type, {"Number", "NumberLiteral"}) THEN Number
    ELSE IF isTypeFlagSet(type, BooleanLike) THEN Boolean
    ELSE IF isTypeFlagSet(type, {"Null", "Undefined", "Void"}) THEN NullOrUndefined
    ELSE IF isTypeFlagSet(type, {"Any"}) THEN Any
    ELSE Object

\* getKinds without the Set that removes repeated kinds
getKinds_keepRepeats(type) ==
    IF isUnionType(type)
    THEN [n \in 1..Len(type.types) |-> getKind(type.types[n])]
    ELSE <<getKind(type)>>

\* type.types.map(getKind)
mapGetKind(types) == [n \in 1..Len(types) |-> getKind(types[n])]

getKinds(type) ==
    IF isUnionType(type)
    THEN ArrayFromSet(mapGetKind(type.types))
    ELSE <<getKind(type)>>

arrayContainsKind(types, typeToCheck) == some(types, typeToCheck)

getStrictestKind(types) == MathMax(types)

\* getStrictestComparableType without the check of typesRight for Any
getStrictestComparableType_leftAnyOnly(typesLeft, typesRight) ==
    LET overlappingTypes ==
            SelectSeq(typesLeft, LAMBDA type : indexOf(typesRight, type) >= 0)
    IN IF Len(overlappingTypes) > 0 THEN MathMax(overlappingTypes)
       ELSE IF some(typesLeft, Any) THEN MathMax(typesRight)
       ELSE IF \/ some(typesLeft, NullOrUndefined) /\ some(typesRight, Object)
               \/ some(typesRight, NullOrUndefined) /\ some(typesLeft, Object)
            THEN Object
       ELSE Undefined

\* getStrictestComparableType looking for Any before looking for an overlap
getStrictestComparableType_anyFirst(typesLeft, typesRight) ==
    LET overlappingTypes ==
            SelectSeq(typesLeft, LAMBDA type : indexOf(typesRight, type) >= 0)
    IN IF some(typesLeft, Any) THEN MathMax(typesRight)
       ELSE IF some(typesRight, Any) THEN MathMax(typesLeft)
       ELSE IF Len(overlappingTypes) > 0 THEN MathMax(overlappingTypes)
       ELSE IF \/ some(typesLeft, NullOrUndefined) /\ some(typesRight, Object)
               \/ some(typesRight, NullOrUndefined) /\ some(typesLeft, Object)
            THEN Object
       ELSE Undefined

getStrictestComparableType(typesLeft, typesRight) ==
    LET overlappingTypes ==
            SelectSeq(typesLeft, LAMBDA type : indexOf(typesRight, type) >= 0)
    IN IF Len(overlappingTypes) > 0 THEN getStrictestKind(overlappingTypes)
       ELSE IF arrayContainsKind(typesLeft, Any) THEN getStrictestKind(typesRight)
       ELSE IF arrayContainsKind(typesRight, Any) THEN getStrictestKind(typesLeft)
       ELSE IF \/ /\ arrayContainsKind(typesLeft, NullOrUndefined)
                  /\ arrayContainsKind(typesRight, Object)
               \/ /\ arrayContainsKind(typesRight, NullOrUndefined)
                  /\ arrayContainsKind(typesLeft, Object)
            THEN Object
       ELSE Undefined

isEqualityOperator(operator) ==
    CASE operator \in {"==", "!=", "===", "!=="} -> TRUE
      [] OTHER -> FALSE

isComparisonOperator(operator) ==
    IF isEqualityOperator(operator) THEN TRUE
    ELSE CASE operator \in {"<", ">", "<=", ">="} -> TRUE
           [] OTHER -> FALSE

\* getNodeType: the type the checker resolved for an operand node
getNodeType(node) == node.type

----------------------------------------------------------------------------
(* strict-comparisons.ts : the BinaryExpression handler *)

\* kinds.map(type => typeNames[type])
mapTypeNames(kinds) == [n \in 1..Len(kinds) |-> typeNames(kinds[n])]

\* nonComparableTypes with the two sides exchanged
nonComparableTypes_swapped(i, leftKinds, rightKinds) ==
    [node |-> i,
     messageId |-> "nonComparableTypes",
     data |-> [typesLeft |-> join(mapTypeNames(rightKinds), " | "),
               typesRight |-> join(mapTypeNames(leftKinds), " | ")]]

nonComparableTypes(i, leftKinds, rightKinds) ==
    [node |-> i,
     messageId |-> "nonComparableTypes",
     data |-> [typesLeft |-> join(mapTypeNames(leftKinds), " | "),
               typesRight |-> join(mapTypeNames(rightKinds), " | ")]]

invalidTypeForOperator(i, operator, operandKind) ==
    [node |-> i,
     messageId |-> "invalidTypeForOperator",
     data |-> [comparator |-> operator, type |-> typeNames(operandKind)]]

\* checkEquality without the break after the report of the NullOrUndefined
\* and Object case, which then runs into the default case
checkEquality_fallThrough(i, operator, operandKind) ==
    CASE operandKind \in {Any, Number, Enum, String, Boolean} -> <<>>
      [] operandKind \in {NullOrUndefined, Object} ->
            IF options.allowObjectEqualComparison
            THEN <<>>
            ELSE <<[node |-> i, messageId |-> "invalidTypeForOperator",
                    data |-> [comparator |-> operator, type |-> typeNames(operandKind)]],
                   [node |-> i, messageId |-> "invalidTypeForOperator",
                    data |-> [comparator |-> operator, type |-> typeNames(operandKind)]]>>
      [] OTHER -> <<[node |-> i, messageId |-> "invalidTypeForOperator",
                     data |-> [comparator |-> operator, type |-> typeNames(operandKind)]]>>

\* checkEquality reading allowStringOrderComparison for the object case
checkEquality_wrongOption(i, operator, operandKind) ==
    CASE operandKind \in {Any, Number, Enum, String, Boolean} -> <<>>
      [] operandKind \in {NullOrUndefined, Object} ->
            IF options.allowStringOrderComparison
            THEN <<>>
            ELSE <<[node |-> i, messageId |-> "invalidTypeForOperator",
                    data |-> [comparator |-> operator, type |-> typeNames(operandKind)]]>>
      [] OTHER -> <<[node |-> i, messageId |-> "invalidTypeForOperator",
                     data |-> [comparator |-> operator, type |-> typeNames(operandKind)]]>>

\* the switch over operandKind for !=, ==, !==, === : the reports it makes
checkEquality(i, operator, operandKind) ==
    CASE operandKind \in {Any, Number, Enum, String, Boolean} -> <<>>
      [] operandKind \in {NullOrUndefined, Object} ->
            IF options.allowObjectEqualComparison
            THEN <<>>
            ELSE <<invalidTypeForOperator(i, operator, operandKind)>>
      [] OTHER -> <<invalidTypeForOperator(i, operator, operandKind)>>

\* checkOrdering that lets allowObjectEqualComparison pass an ordering of
\* NullOrUndefined or Object
checkOrdering_objectOption(i, operator, operandKind) ==
    CASE operandKind \in {Any, Number} -> <<>>
      [] operandKind = String ->
            IF options.allowStringOrderComparison
            THEN <<>>
            ELSE <<[node |-> i, messageId |-> "invalidTypeForOperator",
                    data |-> [comparator |-> operator, type |-> typeNames(operandKind)]]>>
      [] operandKind \in {NullOrUndefined, Object} ->
            IF options.allowObjectEqualComparison
            THEN <<>>
            ELSE <<[node |-> i, messageId |-> "invalidTypeForOperator",
                    data |-> [comparator |-> operator, type |-> typeNames(operandKind)]]>>
      [] OTHER -> <<[node |-> i, messageId |-> "invalidTypeForOperator",
                     data |-> [comparator |-> operator, type |-> typeNames(operandKind)]]>>

\* the switch over operandKind for >, <, >=, <= : the reports it makes
checkOrdering(i, operator, operandKind) ==
    CASE operandKind \in {Any, Number} -> <<>>
      [] operandKind = String ->
            IF options.allowStringOrderComparison
            THEN <<>>
            ELSE <<invalidTypeForOperator(i, operator, operandKind)>>
      [] OTHER -> <<invalidTypeForOperator(i, operator, operandKind)>>

\* checkOperandKind that reports nothing once a diagnostic has been made
checkOperandKind_firstOnly(i, operator, leftKinds, rightKinds, operandKind) ==
    IF Len(reported) > 0 THEN <<>>
    ELSE IF operandKind = Undefined
    THEN <<nonComparableTypes(i, leftKinds, rightKinds)>>
    ELSE IF isEqualityOperator(operator)
         THEN checkEquality(i, operator, operandKind)
         ELSE checkOrdering(i, operator, operandKind)

\* the reports made once the operand kinds are resolved
checkOperandKind(i, operator, leftKinds, rightKinds, operandKind) ==
    IF operandKind = Undefined
    THEN <<nonComparableTypes(i, leftKinds, rightKinds)>>
    ELSE IF isEqualityOperator(operator)
         THEN checkEquality(i, operator, operandKind)
         ELSE checkOrdering(i, operator, operandKind)

BinaryExpression(i) ==
    /\ i \in DOMAIN ast
    /\ i \notin visited
    /\ ast[i].type = "BinaryExpression"
    /\ visited' = visited \cup {i}
    /\ LET node == ast[i] IN
       IF isComparisonOperator(node.operator)
       THEN LET leftType == getNodeType(node.left)
                rightType == getNodeType(node.right)
                leftKinds == getKinds(leftType)
                rightKinds == getKinds(rightType)
                operandKind == getStrictestComparableType(leftKinds, rightKinds)
            IN /\ locals' = [j \in DOMAIN locals \cup {i} |->
                                IF j = i
                                THEN [leftKinds |-> leftKinds,
                                      rightKinds |-> rightKinds,
                                      operandKind |-> operandKind]
                                ELSE locals[j]]
               /\ reported' = reported \o
                     checkOperandKind(i, node.operator, leftKinds, rightKinds,
                                      operandKind)
       ELSE UNCHANGED <<locals, reported>>
    /\ UNCHANGED <<options, ast, args, ret>>

----------------------------------------------------------------------------
(* Inputs of the strict-comparisons rule *)

Options == [allowObjectEqualComparison : BOOLEAN,
            allowStringOrderComparison : BOOLEAN]

\* a type that is not a union, with the given flags
Type(flags) == [flags |-> flags, types |-> <<>>]

\* a union type of the given member types; extra are the flags a union
\* carries besides Union (Boolean for boolean, EnumLiteral for an enum)
UnionType(extra, members) == [flags |-> {"Union"} \cup extra, types |-> members]

\* boolean is the union false | true
booleanType == UnionType({"Boolean"}, <<Type({"BooleanLiteral"}), Type({"BooleanLiteral"})>>)

\* an enum with a numeric and a string member
enumType == UnionType({"EnumLiteral"}, <<Type({"EnumLiteral", "NumberLiteral"}),
                                         Type({"EnumLiteral", "StringLiteral"})>>)

\* the flags of the types any, string, 1, boolean literal, null, object
KindFlags == {{"Any"}, {"String"}, {"NumberLiteral"}, {"BooleanLiteral"},
              {"Null"}, {"Object"}}

\* further non-union types: literals, undefined, void, enum members, old enums
OtherFlags == {{"StringLiteral"}, {"Number"}, {"Undefined"}, {"Void"}, {"Enum"},
               {"EnumLiteral", "NumberLiteral"}, {"EnumLiteral", "StringLiteral"}}

\* operand types of the checked expressions: the non-union types above, the
\* unions of two members, boolean and an enum
OperandTypes ==
    {Type(f) : f \in KindFlags \cup OtherFlags}
    \cup {UnionType({}, <<Type(f), Type(g)>>) : f \in KindFlags, g \in KindFlags}
    \cup {booleanType, enumType}

\* the eight comparison operators and two operators the rule ignores
Operators == {"==", "!=", "===", "!==", "<", ">", "<=", ">=", "+", "instanceof"}

BinaryExpressionNode(operator, leftType, rightType) ==
    [type |-> "BinaryExpression", operator |-> operator,
     left |-> [type |-> leftType], right |-> [type |-> rightType]]

BinaryExpressions ==
    {BinaryExpressionNode(op, l, r) : op \in Operators, l \in OperandTypes,
                                      r \in OperandTypes}

\* create() of strict-comparisons with one comparison expression to visit
Init ==
    /\ options \in Options
    /\ ast \in {<<n>> : n \in BinaryExpressions}
    /\ visited = {}
    /\ locals = <<>>
    /\ reported = <<>>
    /\ args = <<>>
    /\ ret = <<>>

Next == \E i \in DOMAIN ast : BinaryExpression(i)

Spec == Init /\ [][Next]_vars

----------------------------------------------------------------------------
(* Properties of the BinaryExpression handler *)

\* the reports made for node i
ReportsOf(i) == SelectSeq(reported, LAMBDA r : r.node = i)

Elems(seq) == {seq[k] : k \in 1..Len(seq)}

EqualityOperators == {"==", "!=", "===", "!=="}
OrderingOperators == {"<", ">", "<=", ">="}

\* the name a diagnostic shows for a kind
KindName(kind) ==
    IF kind = Any THEN "any"
    ELSE IF kind = Number THEN "number"
    ELSE IF kind = Enum THEN "enum"
    ELSE IF kind = String THEN "string"
    ELSE IF kind = Boolean THEN "boolean"
    ELSE IF kind = NullOrUndefined THEN "null | undefined"
    ELSE "object"

RECURSIVE JoinedNames(_)
\* the kind names of a kind list, in order, separated by " | "
JoinedNames(kinds) ==
    IF Len(kinds) = 1 THEN KindName(kinds[1])
    ELSE JoinedNames(SubSeq(kinds, 1, Len(kinds) - 1)) \o " | "
            \o KindName(kinds[Len(kinds)])

\* the one invalidTypeForOperator report expected for node i
ExpectInvalid(i, kind) ==
    <<[node |-> i, messageId |-> "invalidTypeForOperator",
       data |-> [comparator |-> ast[i].operator, type |-> KindName(kind)]]>>

\* C2: for every evaluated binary expression, whatever its operator, operand
\* kinds and options, the handler has called context.report 0 or 1 times.
C2_AtMostOneReport ==
    \A i \in visited : Len(ReportsOf(i)) \in {0, 1}

C2_Witness ==
    \E i \in visited :
        /\ ast[i].operator \in EqualityOperators
        /\ locals[i].operandKind = NullOrUndefined
        /\ ~options.allowObjectEqualComparison
        /\ Len(ReportsOf(i)) = 1

\* C3: when the resolver returns incomparable, exactly one diagnostic is made,
\* of kind nonComparableTypes, carrying the " | "-joined names of the left and
\* of the right kinds in classification order, and no invalidTypeForOperator,
\* for every comparison operator and every value of the two options.
C3_IncomparableReport ==
    \A i \in visited :
        (isComparisonOperator(ast[i].operator) /\ locals[i].operandKind = Undefined)
        => /\ locals[i].leftKinds = getKinds(ast[i].left.type)
           /\ locals[i].rightKinds = getKinds(ast[i].right.type)
           /\ ReportsOf(i) =
                <<[node |-> i, messageId |-> "nonComparableTypes",
                   data |-> [typesLeft |-> JoinedNames(locals[i].leftKinds),
                             typesRight |-> JoinedNames(locals[i].rightKinds)]]>>

C3_Witness ==
    \E i \in visited :
        /\ ast[i].operator = ">="
        /\ options.allowObjectEqualComparison
        /\ options.allowStringOrderComparison
        /\ locals[i].operandKind = Undefined
        /\ locals[i].leftKinds = <<String, Number>>
        /\ locals[i].rightKinds = <<Boolean, NullOrUndefined>>
        /\ ReportsOf(i) =
             <<[node |-> i, messageId |-> "nonComparableTypes",
                data |-> [typesLeft |-> "string | number",
                          typesRight |-> "boolean | null | undefined"]]>>

\* C4: for an equality operator with a governing kind: no diagnostic for Any,
\* Number, Enum, String, Boolean under any options; for NullOrUndefined and
\* Object one invalidTypeForOperator with the operator and the kind's name
\* exactly when allowObjectEqualComparison is false; allowStringOrderComparison
\* plays no part.
C4_EqualityPolicy ==
    /\ \A i \in visited :
          (ast[i].operator \in EqualityOperators /\ locals[i].operandKind # Undefined)
          => LET kind == locals[i].operandKind IN
             /\ kind \in {Any, Number, Enum, String, Boolean} => ReportsOf(i) = <<>>
             /\ kind \in {NullOrUndefined, Object} =>
                   ReportsOf(i) = IF options.allowObjectEqualComparison
                                  THEN <<>> ELSE ExpectInvalid(i, kind)
    /\ \A operator \in EqualityOperators : checkEquality(1, operator, Enum) = <<>>

C4_Witness ==
    \E i \in visited :
        /\ ast[i].operator = "!=="
        /\ locals[i].operandKind = Object
        /\ ~options.allowObjectEqualComparison
        /\ options.allowStringOrderComparison
        /\ ReportsOf(i) =
             <<[node |-> i, messageId |-> "invalidTypeForOperator",
                data |-> [comparator |-> "!==", type |-> "object"]]>>

\* C5: for an ordering operator with a governing kind: no diagnostic for Any
\* and Number; for String one invalidTypeForOperator exactly when
\* allowStringOrderComparison is false; for Boolean, Enum, NullOrUndefined and
\* Object one invalidTypeForOperator under every value of the options.
C5_OrderingPolicy ==
    /\ \A i \in visited :
          (ast[i].operator \in OrderingOperators /\ locals[i].operandKind # Undefined)
          => LET kind == locals[i].operandKind IN
             /\ kind \in {Any, Number} => ReportsOf(i) = <<>>
             /\ kind = String =>
                   ReportsOf(i) = IF options.allowStringOrderComparison
                                  THEN <<>> ELSE ExpectInvalid(i, kind)
             /\ kind \in {Boolean, Enum, NullOrUndefined, Object} =>
                   ReportsOf(i) = ExpectInvalid(i, kind)
    /\ \A operator \in OrderingOperators :
          checkOrdering(1, operator, Enum) =
             <<[node |-> 1, messageId |-> "invalidTypeForOperator",
                data |-> [comparator |-> operator, type |-> "enum"]]>>

C5_Witness ==
    \E i \in visited :
        /\ ast[i].operator = "<="
        /\ locals[i].operandKind = NullOrUndefined
        /\ options.allowObjectEqualComparison
        /\ options.allowStringOrderComparison
        /\ ReportsOf(i) =
             <<[node |-> i, messageId |-> "invalidTypeForOperator",
                data |-> [comparator |-> "<=", type |-> "null | undefined"]]>>

\* the joined names of the kind lists of one or two kinds other than Enum
EnumFreeNames ==
    LET kinds == TypeKind \ {Enum} IN
    {KindName(k) : k \in kinds}
    \cup {KindName(k) \o " | " \o KindName(l) : k \in kinds, l \in kinds}

\* C10: Enum is unreachable: it is in no operand kind list, it is never the
\* governing kind, and no diagnostic carries the name "enum" in typesLeft,
\* typesRight or type, for any expression and options.
C10_EnumUnreachable ==
    /\ \A i \in DOMAIN locals :
          /\ Enum \notin Elems(locals[i].leftKinds)
          /\ Enum \notin Elems(locals[i].rightKinds)
          /\ locals[i].operandKind # Enum
    /\ \A k \in 1..Len(reported) :
          IF reported[k].messageId = "nonComparableTypes"
          THEN /\ reported[k].data.typesLeft \in EnumFreeNames
               /\ reported[k].data.typesRight \in EnumFreeNames
          ELSE reported[k].data.type # "enum"

\* a comparison of an enum member with an old-style enum value was evaluated
C10_Witness ==
    \E i \in visited :
        /\ "EnumLiteral" \in ast[i].left.type.flags
        /\ "Enum" \in ast[i].right.type.flags
        /\ i \in DOMAIN locals
        /\ Len(ReportsOf(i)) = 1

----------------------------------------------------------------------------
(* getKinds applied on its own to one type *)

\* the flags a type can carry besides Union
MemberFlags == TypeFlags \ {"Union"}

\* the types that are not unions: one to MaxFlags flags; the unions drawn
\* below have two to MaxMembers members, or are boolean or an enum
NonUnionTypes ==
    {Type(f) : f \in {g \in SUBSET MemberFlags : Cardinality(g) \in 1..MaxFlags}}

\* the members of the unions: a type of one flag, or an enum member
UnionMemberTypes ==
    {Type({f}) : f \in MemberFlags}
    \cup {Type({"EnumLiteral", "NumberLiteral"}), Type({"EnumLiteral", "StringLiteral"})}

NoOptions == [allowObjectEqualComparison |-> FALSE,
              allowStringOrderComparison |-> FALSE]

InitClassify ==
    /\ \/ \E type \in NonUnionTypes \cup {booleanType, enumType} : args = <<type>>
       \/ \E n \in 2..MaxMembers : \E members \in [1..n -> UnionMemberTypes] :
             args = <<UnionType({}, members)>>
    /\ ret = <<>>
    /\ options = NoOptions
    /\ ast = <<>>
    /\ visited = {}
    /\ locals = <<>>
    /\ reported = <<>>

CallGetKinds ==
    /\ ret = <<>>
    /\ ret' = <<getKinds(args[1])>>
    /\ UNCHANGED <<options, ast, visited, locals, reported, args>>

SpecClassify == InitClassify /\ [][CallGetKinds]_vars

\* the classification rules in priority order: the flags looked for, the kind
ClassificationRules ==
    <<[flags |-> {"String", "StringLiteral"}, kind |-> String],
      [flags |-> {"Number", "NumberLiteral"}, kind |-> Number],
      [flags |-> {"Boolean", "BooleanLiteral"}, kind |-> Boolean],
      [flags |-> {"Null", "Undefined", "Void"}, kind |-> NullOrUndefined],
      [flags |-> {"Any"}, kind |-> Any]>>

\* the kind of the first rule one of whose flags the member carries, else Object
FirstMatch(member) ==
    LET matching == {n \in 1..Len(ClassificationRules) :
                        member.flags \cap ClassificationRules[n].flags # {}}
    IN IF matching = {} THEN Object
       ELSE ClassificationRules[CHOOSE n \in matching : \A m \in matching : n <= m].kind

\* C7: getKinds is total and first-match: the list it returns is not empty,
\* repeats no kind, holds exactly the kinds of the union's members (of the
\* type itself when it is no union, then one kind), each member's kind being
\* that of the first rule matching it, Object when none does.
C7_Classification ==
    ret # <<>> =>
        LET type == args[1]
            kinds == ret[1]
        IN /\ Len(kinds) >= 1
           /\ \A a \in 1..Len(kinds) : \A b \in 1..Len(kinds) :
                 a # b => kinds[a] # kinds[b]
           /\ IF "Union" \in type.flags
              THEN Elems(kinds) = {FirstMatch(type.types[n]) : n \in 1..Len(type.types)}
              ELSE kinds = <<FirstMatch(type)>>

\* a union of three members, two of them strings, has been classified
C7_Witness ==
    /\ args = <<UnionType({}, <<Type({"EnumLiteral", "StringLiteral"}),
                               Type({"Void"}),
                               Type({"String"})>>)>>
    /\ ret = << <<String, NullOrUndefined>> >>

----------------------------------------------------------------------------
(* getStrictestComparableType applied on its own to two kind lists *)

\* the lists of one to MaxKinds kinds that repeat no kind
KindLists ==
    UNION {{kinds \in [1..n -> TypeKind] :
               \A a \in 1..n : \A b \in 1..n : a # b => kinds[a] # kinds[b]} :
              n \in 1..MaxKinds}

InitResolve ==
    /\ \E typesLeft \in KindLists : \E typesRight \in KindLists :
          args = <<typesLeft, typesRight>>
    /\ ret = <<>>
    /\ options = NoOptions
    /\ ast = <<>>
    /\ visited = {}
    /\ locals = <<>>
    /\ reported = <<>>

CallGetStrictestComparableType ==
    /\ ret = <<>>
    /\ ret' = <<getStrictestComparableType(args[1], args[2])>>
    /\ UNCHANGED <<options, ast, visited, locals, reported, args>>

SpecResolve == InitResolve /\ [][CallGetStrictestComparableType]_vars

\* C1: resolution is symmetric: the result for (L, R) is the result for (R, L),
\* the same governing kind or incomparable both ways.
C1_Symmetry ==
    ret # <<>> => ret[1] = getStrictestComparableType(args[2], args[1])

\* only the right side holds Any, and the left side's strictest kind governs
C1_Witness ==
    /\ args = << <<Number, Boolean>>, <<Any, String>> >>
    /\ ret = <<Boolean>>

\* the kind of highest rank of a set of kinds
HighestRank(kinds) == CHOOSE k \in kinds : \A l \in kinds : l <= k

\* the four steps of the resolution, on the kind sets L and R
Resolution(L, R) ==
    IF L \cap R # {} THEN HighestRank(L \cap R)
    ELSE IF Any \in L THEN HighestRank(R)
    ELSE IF Any \in R THEN HighestRank(L)
    ELSE IF \/ NullOrUndefined \in L /\ Object \in R
            \/ NullOrUndefined \in R /\ Object \in L
         THEN Object
    ELSE Undefined

\* C6: the result is that of the four steps: the highest rank of the overlap
\* when there is one; else the highest rank of the other side when a side
\* holds Any; else Object when one side holds NullOrUndefined and the other
\* Object; else incomparable.
C6_FourSteps ==
    ret # <<>> => ret[1] = Resolution(Elems(args[1]), Elems(args[2]))

\* an overlap governs although the left side holds Any
C6_Witness ==
    /\ args = << <<Any, Number>>, <<Number, Object>> >>
    /\ ret = <<Number>>

----------------------------------------------------------------------------
(* A traversal over several comparison expressions, in any order *)

stringType == Type({"String"})
numberType == Type({"Number"})
objectType == Type({"Object"})

\* the expressions of the traversed programs
ProgramExpressions ==
    {BinaryExpressionNode(op, operands[1], operands[2]) :
        op \in {"===", "<"},
        operands \in {<<stringType, stringType>>, <<objectType, objectType>>,
                      <<numberType, stringType>>}}

InitProgram ==
    /\ options \in Options
    /\ ast \in [1..ProgramLen -> ProgramExpressions]
    /\ visited = {}
    /\ locals = <<>>
    /\ reported = <<>>
    /\ args = <<>>
    /\ ret = <<>>

SpecProgram == InitProgram /\ [][Next]_vars

\* the diagnostics made for node i, without the node they are placed on
Outcome(i) ==
    [k \in 1..Len(ReportsOf(i)) |->
        [messageId |-> ReportsOf(i)[k].messageId, data |-> ReportsOf(i)[k].data]]

\* C8: evaluation is stateless: under fixed options, two expressions with the
\* same operator and operand types get the same diagnostic or none, whatever
\* was evaluated and reported before each of them, in any order of evaluation.
C8_OrderIndependent ==
    \A i \in visited : \A j \in visited :
        ast[i] = ast[j] => Outcome(i) = Outcome(j)

\* the same rejected expression evaluated first and last, with another
\* diagnostic reported in between
C8_Witness ==
    /\ visited = {1, 2, 3}
    /\ ast[1] = ast[3]
    /\ ast[2] # ast[1]
    /\ Len(reported) = 3
    /\ reported[1].node = 3
    /\ reported[2].node = 2
    /\ reported[3].node = 1

----------------------------------------------------------------------------
(* class-name-casing.ts *)

UpperCase == {"A", "B", "C", "D", "E", "F", "G", "H", "I", "J", "K", "L", "M",
              "N", "O", "P", "Q", "R", "S", "T", "U", "V", "W", "X", "Y", "Z"}
LowerCase == {"a", "b", "c", "d", "e", "f", "g", "h", "i", "j", "k", "l", "m",
              "n", "o", "p", "q", "r", "s", "t", "u", "v", "w", "x", "y", "z"}
Digits == {"0", "1", "2", "3", "4", "5", "6", "7", "8", "9"}

\* JavaScript values a name can be: a string (its characters) or undefined
StringValue(chars) == [kind |-> "string", chars |-> chars]
UndefinedValue == [kind |-> "undefined", chars |-> <<>>]

\* the string a value is converted to where a string is expected
ToString(value) ==
    IF value.kind = "undefined"
    THEN <<"u", "n", "d", "e", "f", "i", "n", "e", "d">>
    ELSE value.chars

\* the absent id of an anonymous class
Null == [type |-> "null"]

\* a value used as a condition
Truthy(node) == node.type # "null"

\* node.name: the name of an Identifier, undefined on a node without one
NameOf(node) == IF node.type = "Identifier" THEN node.name ELSE UndefinedValue

\* /^[A-Z][0-9A-Za-z]*$/.test(name)
isPascalCase(name) ==
    LET chars == ToString(name) IN
    /\ Len(chars) >= 1
    /\ chars[1] \in UpperCase
    /\ \A k \in 2..Len(chars) : chars[k] \in Digits \cup UpperCase \cup LowerCase

\* report(decl, id): the call it makes to context.report
report(decl, id) ==
    LET resolvedId == IF Truthy(id) THEN id ELSE decl.id
        friendlyName ==
            CASE decl.type \in {"ClassDeclaration", "ClassExpression"} ->
                    IF decl.abstract THEN "Abstract class" ELSE "Class"
              [] decl.type = "TSInterfaceDeclaration" -> "Interface"
              [] OTHER -> decl.type
    IN [node |-> resolvedId,
        data |-> [friendlyName |-> friendlyName, name |-> NameOf(resolvedId)]]

\* the handler of 'ClassDeclaration, TSInterfaceDeclaration, ClassExpression'
ClassLike(i) ==
    /\ i \in DOMAIN ast
    /\ i \notin visited
    /\ ast[i].type \in {"ClassDeclaration", "TSInterfaceDeclaration", "ClassExpression"}
    /\ visited' = visited \cup {i}
    /\ LET node == ast[i] IN
       IF Truthy(node.id) /\ ~isPascalCase(NameOf(node.id))
       THEN reported' = Append(reported, report(node, Null))
       ELSE UNCHANGED reported
    /\ UNCHANGED <<options, ast, locals, args, ret>>

\* the handler of "VariableDeclarator[init.type='ClassExpression']"
VariableDeclarator(i) ==
    /\ i \in DOMAIN ast
    /\ i \notin visited
    /\ ast[i].type = "VariableDeclarator"
    /\ ast[i].init.type = "ClassExpression"
    /\ visited' = visited \cup {i}
    /\ LET node == ast[i]
           id == node.id
       IN IF Truthy(id) /\ ~Truthy(node.init.id) /\ ~isPascalCase(NameOf(id))
          THEN reported' = Append(reported, report(node.init, id))
          ELSE UNCHANGED reported
    /\ UNCHANGED <<options, ast, locals, args, ret>>

----------------------------------------------------------------------------
(* Inputs of the class-name-casing rule *)

\* the characters names are made of
NameChars == {"A", "b", "0", "_"}

\* identifier names of one to MaxNameLen characters, not starting with a digit
Names ==
    UNION {{chars \in [1..n -> NameChars] : chars[1] \notin Digits} :
              n \in 1..MaxNameLen}

Identifier(chars) == [type |-> "Identifier", name |-> StringValue(chars)]

Identifiers == {Identifier(chars) : chars \in Names}

\* class X {}, abstract class X {}, export default class {}
ClassDeclarations ==
    {[type |-> "ClassDeclaration", id |-> id, abstract |-> abstract] :
        id \in Identifiers \cup {Null}, abstract \in BOOLEAN}

\* interface X {}
InterfaceDeclarations ==
    {[type |-> "TSInterfaceDeclaration", id |-> id] : id \in Identifiers}

\* class {} and class X {} used as expressions
ClassExpressions ==
    {[type |-> "ClassExpression", id |-> id, abstract |-> FALSE] :
        id \in Identifiers \cup {Null}}

\* the targets of a declarator: a variable, or a destructuring pattern
BindingTargets == Identifiers \cup {[type |-> "ObjectPattern"], [type |-> "ArrayPattern"]}

\* var x = class {}, var { x } = class {}, var x = 1
VariableDeclarators ==
    {[type |-> "VariableDeclarator", id |-> id, init |-> init] :
        id \in BindingTargets, init \in ClassExpressions \cup {[type |-> "Literal"]}}

\* the nodes of one statement in the order the traversal enters them
NodesOf(statement) ==
    IF statement.type = "VariableDeclarator"
    THEN <<statement, statement.init>>
    ELSE <<statement>>

\* create() of class-name-casing with one statement to traverse
InitCasing ==
    /\ \E statement \in ClassDeclarations \cup InterfaceDeclarations
                        \cup ClassExpressions \cup VariableDeclarators :
          ast = NodesOf(statement)
    /\ visited = {}
    /\ reported = <<>>
    /\ options = NoOptions
    /\ locals = <<>>
    /\ args = <<>>
    /\ ret = <<>>

NextCasing == \E i \in DOMAIN ast : ClassLike(i) \/ VariableDeclarator(i)

SpecCasing == InitCasing /\ [][NextCasing]_vars

\* the nodes of the statement that have a handler
Handled ==
    {i \in DOMAIN ast :
        \/ ast[i].type \in {"ClassDeclaration", "TSInterfaceDeclaration", "ClassExpression"}
        \/ ast[i].type = "VariableDeclarator" /\ ast[i].init.type = "ClassExpression"}

\* the class or interface of the statement, when it has one
ClassNodes ==
    {i \in DOMAIN ast :
        ast[i].type \in {"ClassDeclaration", "TSInterfaceDeclaration", "ClassExpression"}}

\* the names bound to class node i: its own name, else the name of the
\* variable it initializes, else none
BoundNames(i) ==
    IF ast[i].id.type = "Identifier" THEN {ast[i].id.name.chars}
    ELSE IF i = 2 /\ ast[1].id.type = "Identifier" THEN {ast[1].id.name.chars}
    ELSE {}

\* ^[A-Z][0-9A-Za-z]*$
MatchesPascalCase(chars) ==
    /\ chars # <<>>
    /\ Head(chars) \in UpperCase
    /\ \A k \in 2..Len(chars) : chars[k] \in UpperCase \cup LowerCase \cup Digits

\* C9: a class declaration, interface declaration or class expression gets at
\* most one report, and gets one exactly when its bound identifier does not
\* match ^[A-Z][0-9A-Za-z]*$; the bound identifier is its own name, else the
\* name of the variable it directly initializes; with neither it is never
\* reported, and with its own name only that name is judged.
C9_BoundIdentifierCasing ==
    \A i \in ClassNodes :
        /\ Len(reported) <= 1
        /\ visited = Handled =>
              IF \E name \in BoundNames(i) : ~MatchesPascalCase(name)
              THEN /\ Len(reported) = 1
                   /\ reported[1].data.name.kind = "string"
                   /\ reported[1].data.name.chars \in BoundNames(i)
              ELSE reported = <<>>

====
